---- MODULE Spec2Model ----
(***************************************************************************)
(* Model of webrtc_wrapper.py (class WebRTCWrapper).                       *)
(*                                                                         *)
(* Part 1: the signaling broker, start_signaling_server.handler.  One      *)
(* handler coroutine runs per channel on a single asyncio event loop: a    *)
(* handler runs atomically from one await to the next, and any other       *)
(* handler may run while it is suspended in websocket.recv() or            *)
(* websocket.send().                                                       *)
(*                                                                         *)
(* Part 2: the two session orchestrators, run_sender and run_receiver,     *)
(* with their background tasks, against an abstract RTC engine and an      *)
(* abstract rendezvous channel.                                            *)
(***************************************************************************)
EXTENDS Integers, Sequences, FiniteSets, TLC

\* ------------------------------------------------------------------ bounds
NumChannels == 3
MaxMsgs == 3

\* ---------------------------------------------------------------- constants
Roles == {"sender", "receiver"}
Names == Roles \cup {"bogus"}
Channels == 1..NumChannels
None == 0
InvalidRole == 0
Payloads == 1..MaxMsgs

VARIABLES
    clients,        \* self.clients: name -> channel or None
    message_queue,  \* self.message_queue: role -> list of payloads
    chan,           \* channel: "new", "open", "peer_closed", "server_closed"
    decl,           \* the first message the client sent ("none": no client yet)
    inbox,          \* payloads sent by the client, not yet read by the handler
    hpc,            \* where the channel's handler is suspended
    role,           \* the handler's local `role`
    sendOk,         \* whether the send() the handler is suspended in wrote
    delivered,      \* what the broker has written on the channel, in order
    nsent,          \* payloads created so far (each payload is unique)
    arrived,        \* role -> payloads read by the broker for it, in order
    bindLog,        \* role -> channels bound to it, in order
    queuedAt        \* payload -> Len(bindLog) when it was queued, or -1

bvars == <<clients, message_queue, chan, decl, inbox, hpc, role, sendOk,
           delivered, nsent, arrived, bindLog, queuedAt>>

\* ------------------------------------------------- orchestrators: the state
Timeout == 30
MaxKeys == 1
MaxRx == 2

VARIABLES
    opc,            \* where run_sender / run_receiver is suspended
    outcome,        \* why the run left its normal path ("none": it has not)
    timer,          \* time units spent in wait_for(websocket.recv(), 30)
    remoteApplied,  \* pc.setRemoteDescription() has succeeded
    wasActive,      \* the run has reached its keep-alive loop
    isClosed,       \* the engine's connection has been released
    iceState,       \* pc.iceConnectionState: "new" or "closed"
    engineCloses,   \* observable closes of the engine
    closeCalls,     \* calls of pc.close()
    ws,             \* the rendezvous channel: "none", "open", "broken", "closed"
    wsCloses,       \* observable closes of the rendezvous channel
    rx,             \* messages the channel holds for the orchestrator
    tx,             \* messages the orchestrator has sent, in order
    hasVideo,       \* player.video is present (sender)
    trackLive,      \* video_track.readyState == "live" (sender)
    monitor,        \* monitor_video_track: "none", "polling", "done", "cancelled"
    display,        \* display_video: "none", "running", "done", "cancelled"
    closeTasks,     \* pending asyncio.create_task(pc.close()) tasks (receiver)
    keys            \* 'q' key presses so far (receiver)

ctlVars == <<opc, outcome, timer, remoteApplied, wasActive>>
engineVars == <<isClosed, iceState, engineCloses, closeCalls>>
chanVars == <<ws, wsCloses, rx, tx>>
mediaVars == <<hasVideo, trackLive>>
taskVars == <<monitor, display, closeTasks, keys>>
ovars == <<ctlVars, engineVars, chanVars, mediaVars, taskVars>>
vars == <<bvars, ovars>>

\* ------------------------------------------------------------------ helpers
Opposite(r) == IF r = "sender" THEN "receiver" ELSE "sender"

Range(s) == {s[i] : i \in 1..Len(s)}

\* Position of x in s (0 when absent).
RECURSIVE IndexOf(_, _)
IndexOf(s, x) ==
    IF s = <<>> THEN 0
    ELSE IF Head(s) = x THEN 1
    ELSE LET k == IndexOf(Tail(s), x) IN IF k = 0 THEN 0 ELSE k + 1

\* What the websockets server does when the handler coroutine ends.
ServerClose(c) == [chan EXCEPT ![c] = IF @ = "open" THEN "server_closed" ELSE @]

\* `self.clients[role] = None` in the except clause: creates the key if new.
Unbind(r) == [n \in DOMAIN clients \cup {r} |-> IF n = r THEN None ELSE clients[n]]

\* `await ws.send(m)` called by the handler of c on channel t: an open
\* channel takes the frame at once, in call order, and the caller may then
\* be suspended; on a closed one the call raises ConnectionClosed when the
\* caller resumes.
Send(c, t, m) ==
    /\ sendOk' = [sendOk EXCEPT ![c] = (chan[t] = "open")]
    /\ delivered' = IF chan[t] = "open"
                    THEN [delivered EXCEPT ![t] = Append(@, m)]
                    ELSE delivered

BrokerInit ==
    /\ clients = [n \in Roles |-> None]
    /\ message_queue = [r \in Roles |-> <<>>]
    /\ chan = [c \in Channels |-> "new"]
    /\ decl = [c \in Channels |-> "none"]
    /\ inbox = [c \in Channels |-> <<>>]
    /\ hpc = [c \in Channels |-> "idle"]
    /\ role = [c \in Channels |-> "none"]
    /\ sendOk = [c \in Channels |-> TRUE]
    /\ delivered = [c \in Channels |-> <<>>]
    /\ nsent = 0
    /\ arrived = [r \in Roles |-> <<>>]
    /\ bindLog = [r \in Roles |-> <<>>]
    /\ queuedAt = [m \in Payloads |-> -1]

\* ------------------------------------------------------------- the clients
\* A client opens a channel and sends its first message: the server
\* starts handler(websocket), which finds the declaration at line 74.
Connect(c, n) ==
    /\ chan[c] = "new"
    /\ chan' = [chan EXCEPT ![c] = "open"]
    /\ decl' = [decl EXCEPT ![c] = n]
    /\ hpc' = [hpc EXCEPT ![c] = "recv_role"]
    /\ UNCHANGED <<clients, message_queue, inbox, role, sendOk,
                   delivered, nsent, arrived, bindLog, queuedAt>>
    /\ UNCHANGED ovars

\* The client's later messages: a fresh payload each.  (What a client
\* sends after a rejected declaration is never read: lines 80 and 86.)
ClientSend(c) ==
    /\ chan[c] = "open"
    /\ decl[c] \in Roles
    /\ nsent < MaxMsgs
    /\ nsent' = nsent + 1
    /\ inbox' = [inbox EXCEPT ![c] = Append(@, nsent + 1)]
    /\ UNCHANGED <<clients, message_queue, chan, decl, hpc, role, sendOk,
                   delivered, arrived, bindLog, queuedAt>>
    /\ UNCHANGED ovars

\* The client closes the channel, or the channel fails.
ClientClose(c) ==
    /\ chan[c] = "open"
    /\ chan' = [chan EXCEPT ![c] = "peer_closed"]
    /\ UNCHANGED <<clients, message_queue, decl, inbox, hpc, role, sendOk,
                   delivered, nsent, arrived, bindLog, queuedAt>>
    /\ UNCHANGED ovars

\* ------------------------------------------------------------- the handler
\* Lines 86-87, from the loop test to the await inside send(): pop the head
\* and send it on the handler's own channel, or fall through to line 91.
Drain(c, r) ==
    IF message_queue[r] # <<>>
    THEN /\ message_queue' = [message_queue EXCEPT ![r] = Tail(@)]
         /\ Send(c, c, Head(message_queue[r]))
         /\ hpc' = [hpc EXCEPT ![c] = "drain_send"]
    ELSE /\ hpc' = [hpc EXCEPT ![c] = "relay"]
         /\ UNCHANGED <<message_queue, sendOk, delivered>>

\* Lines 103-106: the except clause, then the handler ends.
OnConnectionClosed(c) ==
    /\ clients' = Unbind(role[c])
    /\ hpc' = [hpc EXCEPT ![c] = "done"]
    /\ chan' = ServerClose(c)

\* Line 83.
Bind(c, r) == [clients EXCEPT ![r] = c]

\* Line 74 returns the declaration; lines 78-87 up to the next await.
RecvRole(c) ==
    /\ hpc[c] = "recv_role"
    /\ decl[c] # "none"
    /\ role' = [role EXCEPT ![c] = decl[c]]
    /\ IF decl[c] \notin DOMAIN clients
       THEN \* line 79: websocket.send("Invalid role")
            /\ Send(c, c, InvalidRole)
            /\ hpc' = [hpc EXCEPT ![c] = "send_invalid"]
            /\ UNCHANGED <<clients, message_queue, chan, bindLog>>
       ELSE IF decl[c] \notin DOMAIN message_queue
       THEN \* line 83 binds, line 86 raises KeyError: the handler dies
            /\ clients' = Bind(c, decl[c])
            /\ hpc' = [hpc EXCEPT ![c] = "done"]
            /\ chan' = ServerClose(c)
            /\ UNCHANGED <<message_queue, sendOk, delivered, bindLog>>
       ELSE /\ clients' = Bind(c, decl[c])
            /\ bindLog' = [bindLog EXCEPT ![decl[c]] = Append(@, c)]
            /\ Drain(c, decl[c])
            /\ UNCHANGED chan
    /\ UNCHANGED <<decl, inbox, nsent, arrived, queuedAt>>
    /\ UNCHANGED ovars

\* Line 79 resumes: the handler returns at line 80, or ConnectionClosed is
\* raised and line 106 runs with the rejected name.
SendInvalid(c) ==
    /\ hpc[c] = "send_invalid"
    /\ IF sendOk[c]
       THEN /\ hpc' = [hpc EXCEPT ![c] = "done"]
            /\ chan' = ServerClose(c)
            /\ UNCHANGED clients
       ELSE OnConnectionClosed(c)
    /\ UNCHANGED <<message_queue, decl, inbox, role, sendOk, delivered,
                   nsent, arrived, bindLog, queuedAt>>
    /\ UNCHANGED ovars

\* Line 87 resumes: back to the loop test at line 86, or ConnectionClosed.
DrainSend(c) ==
    /\ hpc[c] = "drain_send"
    /\ IF sendOk[c]
       THEN /\ Drain(c, role[c])
            /\ UNCHANGED <<clients, chan>>
       ELSE /\ OnConnectionClosed(c)
            /\ UNCHANGED <<message_queue, sendOk, delivered>>
    /\ UNCHANGED <<decl, inbox, role, nsent, arrived, bindLog, queuedAt>>
    /\ UNCHANGED ovars

\* RelayRecv that drops the message when the target is not connected.
RelayRecvDrops(c) ==
    /\ hpc[c] = "relay"
    /\ inbox[c] # <<>>
    /\ LET m == Head(inbox[c])
           target == Opposite(role[c])
           target_ws == clients[target]
       IN /\ inbox' = [inbox EXCEPT ![c] = Tail(@)]
          /\ arrived' = [arrived EXCEPT ![target] = Append(@, m)]
          /\ IF target_ws # None
             THEN /\ Send(c, target_ws, m)
                  /\ hpc' = [hpc EXCEPT ![c] = "fwd_send"]
             ELSE UNCHANGED <<sendOk, delivered, hpc>>
          /\ UNCHANGED <<message_queue, queuedAt>>
    /\ UNCHANGED <<clients, chan, decl, role, nsent, bindLog>>
    /\ UNCHANGED ovars

\* Line 91 returns a message; lines 93-101 up to the next await.
RelayRecv(c) ==
    /\ hpc[c] = "relay"
    /\ inbox[c] # <<>>
    /\ LET m == Head(inbox[c])
           target == Opposite(role[c])
           target_ws == clients[target]
       IN /\ inbox' = [inbox EXCEPT ![c] = Tail(@)]
          /\ arrived' = [arrived EXCEPT ![target] = Append(@, m)]
          /\ IF target_ws # None
             THEN \* line 97: target_ws.send(message)
                  /\ Send(c, target_ws, m)
                  /\ hpc' = [hpc EXCEPT ![c] = "fwd_send"]
                  /\ UNCHANGED <<message_queue, queuedAt>>
             ELSE \* line 101, then back to line 91
                  /\ message_queue' =
                       [message_queue EXCEPT ![target] = Append(@, m)]
                  /\ queuedAt' = [queuedAt EXCEPT ![m] = Len(bindLog[target])]
                  /\ UNCHANGED <<sendOk, delivered, hpc>>
    /\ UNCHANGED <<clients, chan, decl, role, nsent, bindLog>>
    /\ UNCHANGED ovars

\* Line 97 resumes: back to line 91, or ConnectionClosed is raised inside
\* THIS handler and lines 103-106 run with this handler's role.
FwdSend(c) ==
    /\ hpc[c] = "fwd_send"
    /\ IF sendOk[c]
       THEN /\ hpc' = [hpc EXCEPT ![c] = "relay"]
            /\ UNCHANGED <<clients, chan>>
       ELSE OnConnectionClosed(c)
    /\ UNCHANGED <<message_queue, decl, inbox, role, sendOk, delivered,
                   nsent, arrived, bindLog, queuedAt>>
    /\ UNCHANGED ovars

\* websocket.recv() raises ConnectionClosed.  At line 74 `role` is not yet
\* assigned, so line 105 raises and line 106 never runs; at line 91 the
\* except clause unbinds the handler's role.
RecvClosed(c) ==
    /\ hpc[c] \in {"recv_role", "relay"}
    /\ chan[c] = "peer_closed"
    /\ IF hpc[c] = "relay"
       THEN OnConnectionClosed(c)
       ELSE /\ hpc' = [hpc EXCEPT ![c] = "done"]
            /\ UNCHANGED <<clients, chan>>
    /\ UNCHANGED <<message_queue, decl, inbox, role, sendOk, delivered,
                   nsent, arrived, bindLog, queuedAt>>
    /\ UNCHANGED ovars

BrokerNext ==
    \/ \E c \in Channels, n \in Names : Connect(c, n)
    \/ \E c \in Channels : ClientSend(c)
    \/ \E c \in Channels : ClientClose(c)
    \/ \E c \in Channels : RecvRole(c)
    \/ \E c \in Channels : SendInvalid(c)
    \/ \E c \in Channels : DrainSend(c)
    \/ \E c \in Channels : RelayRecv(c)
    \/ \E c \in Channels : FwdSend(c)
    \/ \E c \in Channels : RecvClosed(c)


\* ------------------------------------------------------------ orchestrators
Descriptors == {"offer", "answer"}
Garbage == "garbage"

\* The state as a run begins.  An orchestrator whose program is not run
\* stays "off".
OrchInit(running) ==
    /\ opc = [o \in Roles |-> IF o \in running THEN "start" ELSE "off"]
    /\ outcome = [o \in Roles |-> "none"]
    /\ timer = [o \in Roles |-> 0]
    /\ remoteApplied = [o \in Roles |-> FALSE]
    /\ wasActive = [o \in Roles |-> FALSE]
    /\ isClosed = [o \in Roles |-> FALSE]
    /\ iceState = [o \in Roles |-> "new"]
    /\ engineCloses = [o \in Roles |-> 0]
    /\ closeCalls = [o \in Roles |-> 0]
    /\ ws = [o \in Roles |-> "none"]
    /\ wsCloses = [o \in Roles |-> 0]
    /\ rx = [o \in Roles |-> <<>>]
    /\ tx = [o \in Roles |-> <<>>]
    /\ hasVideo = FALSE
    /\ trackLive = TRUE
    /\ monitor = "none"
    /\ display = "none"
    /\ closeTasks = 0
    /\ keys = 0

\* on_iceconnectionstatechange (lines 301-311), registered by the receiver
\* just before its keep-alive loop: a change to "closed" creates one more
\* pc.close() task.
IceCallback(o) ==
    IF o = "receiver" /\ wasActive[o] /\ iceState[o] # "closed" THEN 1 ELSE 0

\* PcClose without the engine's guard on a closed connection.
PcCloseUnguarded(o) ==
    /\ closeCalls' = [closeCalls EXCEPT ![o] = @ + 1]
    /\ isClosed' = [isClosed EXCEPT ![o] = TRUE]
    /\ iceState' = [iceState EXCEPT ![o] = "closed"]
    /\ engineCloses' = [engineCloses EXCEPT ![o] = @ + 1]

\* `await pc.close()`: the engine releases the connection once; a call on a
\* closed connection returns at once.
PcClose(o) ==
    /\ closeCalls' = [closeCalls EXCEPT ![o] = @ + 1]
    /\ isClosed' = [isClosed EXCEPT ![o] = TRUE]
    /\ iceState' = [iceState EXCEPT ![o] = IF isClosed[o] THEN @ ELSE "closed"]
    /\ engineCloses' = [engineCloses EXCEPT ![o] = IF isClosed[o] THEN @ ELSE @ + 1]

\* The run is over: asyncio.run() cancels the tasks that are left.
CancelTasks(o) ==
    /\ monitor' = IF o = "sender" /\ monitor = "polling" THEN "cancelled" ELSE monitor
    /\ display' = IF o = "receiver" /\ display = "running" THEN "cancelled" ELSE display
    /\ closeTasks' = IF o = "receiver" THEN 0 ELSE closeTasks

\* FinallyBlock in a run whose tasks outlive it.
FinallyBlockKeepsTasks(o) ==
    /\ PcClose(o)
    /\ opc' = [opc EXCEPT ![o] = "done"]
    /\ UNCHANGED <<monitor, display, closeTasks>>

\* Lines 184-187 and 335-339: the finally clause, then the run ends.
FinallyBlock(o) ==
    /\ PcClose(o)
    /\ opc' = [opc EXCEPT ![o] = "done"]
    /\ CancelTasks(o)

\* An exception (or the return at lines 155 and 285) inside `async with`:
\* the run is suspended in the channel's __aexit__.
LeaveChannel(o, why) ==
    /\ opc' = [opc EXCEPT ![o] = "exit_ws"]
    /\ outcome' = [outcome EXCEPT ![o] = why]

\* Lines 180 and 330: the loop test, then asyncio.sleep(1) or the loop's end.
EnterKeepAlive(o) ==
    IF iceState[o] = "closed"
    THEN /\ LeaveChannel(o, "closed")
         /\ UNCHANGED wasActive
    ELSE /\ opc' = [opc EXCEPT ![o] = "keepalive"]
         /\ wasActive' = [wasActive EXCEPT ![o] = TRUE]
         /\ UNCHANGED outcome

\* Lines 119-136 (sender) and 195-275 (receiver), up to the first await.
\* MediaPlayer(self.source) may raise: the run ends outside any try.
SetupEngine(o) ==
    /\ opc[o] = "start"
    /\ IF o = "sender"
       THEN \/ \E v \in BOOLEAN :
                 /\ hasVideo' = v
                 /\ opc' = [opc EXCEPT ![o] = "offer"]
                 /\ UNCHANGED outcome
            \/ /\ opc' = [opc EXCEPT ![o] = "done"]
               /\ outcome' = [outcome EXCEPT ![o] = "error"]
               /\ UNCHANGED hasVideo
       ELSE /\ opc' = [opc EXCEPT ![o] = "connect"]
            /\ UNCHANGED <<outcome, hasVideo>>
    /\ UNCHANGED <<timer, remoteApplied, wasActive, engineVars, chanVars,
                   trackLive, taskVars, bvars>>

\* Lines 136-137 complete, or the engine raises: no try encloses them.
OfferCreated(o) ==
    /\ o = "sender"
    /\ opc[o] = "offer"
    /\ \/ /\ opc' = [opc EXCEPT ![o] = "connect"]
          /\ UNCHANGED outcome
       \/ /\ opc' = [opc EXCEPT ![o] = "done"]
          /\ outcome' = [outcome EXCEPT ![o] = "error"]
    /\ UNCHANGED <<timer, remoteApplied, wasActive, engineVars, chanVars,
                   mediaVars, taskVars, bvars>>

\* Lines 141-143 and 275-277: websockets.connect() returns and the role is
\* sent, or connect() raises and the except and finally clauses run.
OpenChannel(o) ==
    /\ opc[o] = "connect"
    /\ \/ /\ ws' = [ws EXCEPT ![o] = "open"]
          /\ tx' = [tx EXCEPT ![o] = Append(@, o)]
          /\ opc' = [opc EXCEPT ![o] = "sent_role"]
          /\ UNCHANGED <<outcome, engineVars, taskVars>>
       \/ /\ outcome' = [outcome EXCEPT ![o] = "error"]
          /\ FinallyBlock(o)
          /\ UNCHANGED <<ws, tx, keys>>
    /\ UNCHANGED <<timer, remoteApplied, wasActive, wsCloses, rx, mediaVars,
                   bvars>>

\* The send of the role resumes.  Sender: lines 145-148 send the offer.
\* Receiver: line 282 starts the timed wait.
RoleSent(o) ==
    /\ opc[o] = "sent_role"
    /\ IF o = "receiver"
       THEN /\ opc' = [opc EXCEPT ![o] = "wait_reply"]
            /\ UNCHANGED <<outcome, tx>>
       ELSE IF ws[o] = "open"
       THEN /\ tx' = [tx EXCEPT ![o] = Append(@, "offer")]
            /\ opc' = [opc EXCEPT ![o] = "sent_offer"]
            /\ UNCHANGED outcome
       ELSE /\ LeaveChannel(o, "error")
            /\ UNCHANGED tx
    /\ UNCHANGED <<timer, remoteApplied, wasActive, engineVars, ws, wsCloses,
                   rx, mediaVars, taskVars, bvars>>

\* The send of the offer resumes: line 152 starts the timed wait.
OfferSent(o) ==
    /\ o = "sender"
    /\ opc[o] = "sent_offer"
    /\ opc' = [opc EXCEPT ![o] = "wait_reply"]
    /\ UNCHANGED <<outcome, timer, remoteApplied, wasActive, engineVars,
                   chanVars, mediaVars, taskVars, bvars>>

\* One time unit passes in wait_for(websocket.recv(), timeout=30).
Tick(o) ==
    /\ opc[o] = "wait_reply"
    /\ rx[o] = <<>>
    /\ ws[o] = "open"
    /\ timer[o] < Timeout
    /\ timer' = [timer EXCEPT ![o] = @ + 1]
    /\ UNCHANGED <<opc, outcome, remoteApplied, wasActive, engineVars,
                   chanVars, mediaVars, taskVars, bvars>>

\* TimedOut without the return: the run goes on to the descriptor.
TimedOutProceeds(o) ==
    /\ opc[o] = "wait_reply"
    /\ rx[o] = <<>>
    /\ ws[o] = "open"
    /\ timer[o] = Timeout
    /\ opc' = [opc EXCEPT ![o] = "apply"]
    /\ outcome' = [outcome EXCEPT ![o] = "timeout"]
    /\ UNCHANGED <<timer, remoteApplied, wasActive, engineVars, chanVars,
                   mediaVars, taskVars, bvars>>

\* Lines 153-155 and 283-285: asyncio.TimeoutError, log, return.
TimedOut(o) ==
    /\ opc[o] = "wait_reply"
    /\ rx[o] = <<>>
    /\ ws[o] = "open"
    /\ timer[o] = Timeout
    /\ LeaveChannel(o, "timeout")
    /\ UNCHANGED <<timer, remoteApplied, wasActive, engineVars, chanVars,
                   mediaVars, taskVars, bvars>>

\* ReplyReceived that waits again after a message that is no descriptor.
ReplyReceivedRetries(o) ==
    /\ opc[o] = "wait_reply"
    /\ rx[o] # <<>>
    /\ rx' = [rx EXCEPT ![o] = Tail(@)]
    /\ IF Head(rx[o]) \in Descriptors
       THEN opc' = [opc EXCEPT ![o] = "apply"]
       ELSE UNCHANGED opc
    /\ UNCHANGED <<outcome, timer, remoteApplied, wasActive, engineVars, ws,
                   wsCloses, tx, mediaVars, taskVars, bvars>>

\* websocket.recv() returns a message: lines 158-160 and 288-290 parse it
\* and call pc.setRemoteDescription(); json.loads() and
\* RTCSessionDescription() raise on what is no descriptor.
ReplyReceived(o) ==
    /\ opc[o] = "wait_reply"
    /\ rx[o] # <<>>
    /\ rx' = [rx EXCEPT ![o] = Tail(@)]
    /\ IF Head(rx[o]) \in Descriptors
       THEN /\ opc' = [opc EXCEPT ![o] = "apply"]
            /\ UNCHANGED outcome
       ELSE LeaveChannel(o, "error")
    /\ UNCHANGED <<timer, remoteApplied, wasActive, engineVars, ws, wsCloses,
                   tx, mediaVars, taskVars, bvars>>

\* websocket.recv() raises ConnectionClosed.
RecvFailed(o) ==
    /\ opc[o] = "wait_reply"
    /\ rx[o] = <<>>
    /\ ws[o] = "broken"
    /\ LeaveChannel(o, "error")
    /\ UNCHANGED <<timer, remoteApplied, wasActive, engineVars, chanVars,
                   mediaVars, taskVars, bvars>>

\* pc.setRemoteDescription() returns or raises.  Sender: lines 163-181 start
\* the monitor and the keep-alive loop.  Receiver: the track event starts
\* display_video for a video track (lines 203-256) and line 293 asks the
\* engine for the answer.
RemoteApplied(o) ==
    /\ opc[o] = "apply"
    /\ \/ /\ remoteApplied' = [remoteApplied EXCEPT ![o] = TRUE]
          /\ IF o = "sender"
             THEN /\ monitor' = IF hasVideo THEN "polling" ELSE monitor
                  /\ EnterKeepAlive(o)
                  /\ UNCHANGED display
             ELSE /\ \E video \in BOOLEAN :
                       display' = IF video THEN "running" ELSE display
                  /\ opc' = [opc EXCEPT ![o] = "answer"]
                  /\ UNCHANGED <<outcome, wasActive, monitor>>
       \/ /\ LeaveChannel(o, "error")
          /\ UNCHANGED <<remoteApplied, wasActive, monitor, display>>
    /\ UNCHANGED <<timer, engineVars, chanVars, mediaVars, closeTasks, keys,
                   bvars>>

\* Lines 293-298: createAnswer() and setLocalDescription() return and the
\* answer is sent, or the engine (closed, or failing) or the channel raises.
AnswerCreated(o) ==
    /\ o = "receiver"
    /\ opc[o] = "answer"
    /\ \/ /\ ~isClosed[o]
          /\ ws[o] = "open"
          /\ tx' = [tx EXCEPT ![o] = Append(@, "answer")]
          /\ opc' = [opc EXCEPT ![o] = "sent_answer"]
          /\ UNCHANGED outcome
       \/ /\ LeaveChannel(o, "error")
          /\ UNCHANGED tx
    /\ UNCHANGED <<timer, remoteApplied, wasActive, engineVars, ws, wsCloses,
                   rx, mediaVars, taskVars, bvars>>

\* The send of the answer resumes: lines 301-331 register the handlers and
\* start the keep-alive loop.
AnswerSent(o) ==
    /\ o = "receiver"
    /\ opc[o] = "sent_answer"
    /\ EnterKeepAlive(o)
    /\ UNCHANGED <<timer, remoteApplied, engineVars, chanVars, mediaVars,
                   taskVars, bvars>>

\* KeepAlivePoll with a loop test that no connection state satisfies.
KeepAlivePollNever(o) ==
    /\ opc[o] = "keepalive"
    /\ iceState[o] = "failed"
    /\ LeaveChannel(o, "closed")
    /\ UNCHANGED <<timer, remoteApplied, wasActive, engineVars, chanVars,
                   mediaVars, taskVars, bvars>>

\* Lines 180-181 and 330-331: asyncio.sleep(1) returns and the loop test
\* finds the connection closed.
KeepAlivePoll(o) ==
    /\ opc[o] = "keepalive"
    /\ iceState[o] = "closed"
    /\ LeaveChannel(o, "closed")
    /\ UNCHANGED <<timer, remoteApplied, wasActive, engineVars, chanVars,
                   mediaVars, taskVars, bvars>>

\* The channel's __aexit__ returns: the channel is closed, then the except
\* clause (for an exception) and the finally clause run.
ExitChannel(o) ==
    /\ opc[o] = "exit_ws"
    /\ ws' = [ws EXCEPT ![o] = "closed"]
    /\ wsCloses' = [wsCloses EXCEPT ![o] = @ + 1]
    /\ FinallyBlock(o)
    /\ UNCHANGED <<outcome, timer, remoteApplied, wasActive, rx, tx,
                   mediaVars, keys, bvars>>

\* External cancellation (SIGINT): the run is cancelled at the await it is
\* suspended in.  Lines 313-327 (receiver, in the keep-alive loop) create a
\* pc.close() task and stop the loop, which cancels the run as well.
Cancel(o) ==
    /\ opc[o] \in {"offer", "connect", "sent_role", "sent_offer",
                   "wait_reply", "apply", "answer", "sent_answer", "keepalive"}
    /\ outcome' = [outcome EXCEPT ![o] = "cancelled"]
    /\ IF opc[o] = "offer"
       THEN /\ opc' = [opc EXCEPT ![o] = "done"]
            /\ UNCHANGED <<engineVars, taskVars>>
       ELSE IF opc[o] = "connect"
       THEN /\ FinallyBlock(o)
            /\ UNCHANGED keys
       ELSE /\ opc' = [opc EXCEPT ![o] = "exit_ws"]
            /\ UNCHANGED <<engineVars, taskVars>>
    /\ UNCHANGED <<timer, remoteApplied, wasActive, chanVars, mediaVars, bvars>>

\* MonitorPoll that only logs the end of the track.
MonitorPollNoClose ==
    /\ monitor = "polling"
    /\ ~trackLive
    /\ monitor' = "done"
    /\ UNCHANGED <<ctlVars, engineVars, chanVars, mediaVars, display,
                   closeTasks, keys, bvars>>

\* Lines 164-174: monitor_video_track wakes from asyncio.sleep(0.1), finds
\* the track ended and closes the connection.
MonitorPoll ==
    /\ monitor = "polling"
    /\ ~trackLive
    /\ PcClose("sender")
    /\ monitor' = "done"
    /\ UNCHANGED <<ctlVars, chanVars, mediaVars, display, closeTasks, keys,
                   bvars>>

\* The engine: the stored video is over.  The track is read only once the
\* answer has been applied.
TrackEnded ==
    /\ hasVideo
    /\ trackLive
    /\ remoteApplied["sender"]
    /\ opc["sender"] # "done"
    /\ trackLive' = FALSE
    /\ UNCHANGED <<ctlVars, engineVars, chanVars, hasVideo, taskVars, bvars>>

\* Lines 247-253: track.recv() raises MediaStreamError in display_video,
\* which closes the connection.
StreamEnded ==
    /\ display = "running"
    /\ PcClose("receiver")
    /\ display' = "done"
    /\ closeTasks' = closeTasks + IceCallback("receiver")
    /\ UNCHANGED <<ctlVars, chanVars, mediaVars, monitor, keys, bvars>>

\* Lines 258-268: 'q' is pressed while display_video shows frames.
OnKey ==
    /\ display = "running"
    /\ keys < MaxKeys
    /\ keys' = keys + 1
    /\ closeTasks' = closeTasks + 1
    /\ UNCHANGED <<ctlVars, engineVars, chanVars, mediaVars, monitor, display,
                   bvars>>

\* A task created by asyncio.create_task(pc.close()) runs.
CloseTask ==
    /\ closeTasks > 0
    /\ PcClose("receiver")
    /\ closeTasks' = closeTasks - 1 + IceCallback("receiver")
    /\ UNCHANGED <<ctlVars, chanVars, mediaVars, monitor, display, keys, bvars>>

\* The engine reports the connection state "closed" without a local close.
EnginePeerClosed(o) ==
    /\ opc[o] = "keepalive"
    /\ iceState[o] # "closed"
    /\ iceState' = [iceState EXCEPT ![o] = "closed"]
    /\ closeTasks' = closeTasks + IceCallback(o)
    /\ UNCHANGED <<ctlVars, isClosed, engineCloses, closeCalls, chanVars,
                   mediaVars, monitor, display, keys, bvars>>

\* The rendezvous channel delivers a message to the orchestrator.
ReplyArrives(o, m) ==
    /\ ws[o] = "open"
    /\ opc[o] \in {"sent_role", "sent_offer", "wait_reply"}
    /\ Len(rx[o]) < MaxRx
    /\ rx' = [rx EXCEPT ![o] = Append(@, m)]
    /\ UNCHANGED <<ctlVars, engineVars, ws, wsCloses, tx, mediaVars, taskVars,
                   bvars>>

\* The rendezvous channel is closed by the far end or fails.
ChannelFails(o) ==
    /\ ws[o] = "open"
    /\ ws' = [ws EXCEPT ![o] = "broken"]
    /\ UNCHANGED <<ctlVars, engineVars, wsCloses, rx, tx, mediaVars, taskVars,
                   bvars>>

OrchNext ==
    \/ \E o \in Roles : SetupEngine(o)
    \/ \E o \in Roles : OfferCreated(o)
    \/ \E o \in Roles : OpenChannel(o)
    \/ \E o \in Roles : RoleSent(o)
    \/ \E o \in Roles : OfferSent(o)
    \/ \E o \in Roles : Tick(o)
    \/ \E o \in Roles : TimedOut(o)
    \/ \E o \in Roles : ReplyReceived(o)
    \/ \E o \in Roles : RecvFailed(o)
    \/ \E o \in Roles : RemoteApplied(o)
    \/ \E o \in Roles : AnswerCreated(o)
    \/ \E o \in Roles : AnswerSent(o)
    \/ \E o \in Roles : KeepAlivePoll(o)
    \/ \E o \in Roles : ExitChannel(o)
    \/ \E o \in Roles : Cancel(o)
    \/ MonitorPoll
    \/ TrackEnded
    \/ StreamEnded
    \/ OnKey
    \/ CloseTask
    \/ \E o \in Roles : EnginePeerClosed(o)
    \/ \E o \in Roles, m \in Descriptors \cup {Garbage} : ReplyArrives(o, m)
    \/ \E o \in Roles : ChannelFails(o)

\* ------------------------------------- one session: both runs and the broker
\* The broker's channel of each orchestrator's connection.
ChanOf(o) == IF o = "sender" THEN 1 ELSE 2

\* json.dumps() of the local description (lines 145-148, 295-298) and what
\* json.loads() with RTCSessionDescription() makes of a received text (lines
\* 158-159, 288-289): the broker's "Invalid role" is no JSON text.
Encode(d) == IF d = "offer" THEN 1 ELSE 2

Decode(m) == IF m = 1 THEN "offer" ELSE IF m = 2 THEN "answer" ELSE Garbage

\* The connection of orchestrator o reaches the broker with the role
\* declaration, its first frame.
WireConnect(o) ==
    /\ ws[o] = "open"
    /\ Connect(ChanOf(o), o)

\* The descriptor the orchestrator has sent reaches the broker.
WireUp(o) ==
    LET c == ChanOf(o)
        m == Encode(tx[o][2])
    IN /\ Len(tx[o]) = 2
       /\ decl[c] = o
       /\ chan[c] = "open"
       /\ m \notin Range(inbox[c])
       /\ m \notin Range(arrived[Opposite(o)])
       /\ inbox' = [inbox EXCEPT ![c] = Append(@, m)]
       /\ UNCHANGED <<clients, message_queue, chan, decl, hpc, role, sendOk,
                      delivered, nsent, arrived, bindLog, queuedAt>>
       /\ UNCHANGED ovars

\* The first message the broker wrote on the connection reaches the
\* orchestrator, which reads one message in a run.
WireDown(o) ==
    /\ delivered[ChanOf(o)] # <<>>
    /\ rx[o] = <<>>
    /\ ReplyArrives(o, Decode(Head(delivered[ChanOf(o)])))

\* The orchestrator has closed its connection, after all it has sent.
WireClose(o) ==
    /\ ws[o] = "closed"
    /\ Len(tx[o]) = 2 => Encode(tx[o][2]) \in Range(arrived[Opposite(o)])
    /\ ClientClose(ChanOf(o))

\* The broker's handler has ended and the server has closed the connection.
WireServerClosed(o) ==
    /\ chan[ChanOf(o)] = "server_closed"
    /\ ChannelFails(o)

\* The engine and the channel library do not fail on their own: a run
\* fails only at what it reads from the channel, on a connection that is
\* not open, or on an engine connection that is closed.
Accepts(o) ==
    outcome'[o] = "error"
    => (opc[o] = "wait_reply" \/ ws[o] \notin {"none", "open"} \/ isClosed[o])

\* Time passes in the timed wait while the peer is not connected: next to
\* the 30 time units, the steps of the runs and of the broker take no time.
SessionTick(o) ==
    /\ ws[Opposite(o)] # "open"
    /\ Tick(o)

\* Media flows between the engines once both have their descriptions and
\* the connection is established: the receiver's engine meets the end of
\* the stream, or the peer's close, after the sender's engine (or its own
\* connection) has closed, and with its run in the keep-alive loop.
SessionStreamEnded ==
    /\ wasActive["receiver"]
    /\ isClosed["sender"] \/ isClosed["receiver"]
    /\ StreamEnded

SessionPeerClosed(o) ==
    /\ isClosed[Opposite(o)]
    /\ EnginePeerClosed(o)

SessionNext ==
    \/ \E o \in Roles : SetupEngine(o) /\ Accepts(o)
    \/ \E o \in Roles : OfferCreated(o) /\ Accepts(o)
    \/ \E o \in Roles : OpenChannel(o) /\ Accepts(o)
    \/ \E o \in Roles : RoleSent(o)
    \/ \E o \in Roles : OfferSent(o)
    \/ \E o \in Roles : SessionTick(o)
    \/ \E o \in Roles : TimedOut(o)
    \/ \E o \in Roles : ReplyReceived(o)
    \/ \E o \in Roles : RecvFailed(o)
    \/ \E o \in Roles : RemoteApplied(o) /\ Accepts(o)
    \/ \E o \in Roles : AnswerCreated(o) /\ Accepts(o)
    \/ \E o \in Roles : AnswerSent(o)
    \/ \E o \in Roles : KeepAlivePoll(o)
    \/ \E o \in Roles : ExitChannel(o)
    \/ MonitorPoll
    \/ TrackEnded
    \/ SessionStreamEnded
    \/ CloseTask
    \/ \E o \in Roles : SessionPeerClosed(o)
    \/ \E o \in Roles : WireConnect(o)
    \/ \E o \in Roles : WireUp(o)
    \/ \E o \in Roles : WireDown(o)
    \/ \E o \in Roles : WireClose(o)
    \/ \E o \in Roles : WireServerClosed(o)
    \/ \E c \in Channels : RecvRole(c)
    \/ \E c \in Channels : DrainSend(c)
    \/ \E c \in Channels : RelayRecv(c)
    \/ \E c \in Channels : FwdSend(c)
    \/ \E c \in Channels : RecvClosed(c)

\* ---------------------------------------------------------- specifications
\* The broker with its clients.
Init == BrokerInit /\ OrchInit({})

Spec == Init /\ [][BrokerNext]_vars

\* One orchestrator: the sender program or the receiver program, which are
\* separate processes and share no state.
InitOrch == BrokerInit /\ \E o \in Roles : OrchInit({o})

OrchSpec == InitOrch /\ [][OrchNext]_vars

\* The event loop runs every task that is ready, and timers fire.
OrchFairness ==
    /\ \A o \in Roles :
         /\ WF_vars(OfferCreated(o)) /\ WF_vars(OpenChannel(o))
         /\ WF_vars(RoleSent(o)) /\ WF_vars(OfferSent(o))
         /\ WF_vars(Tick(o)) /\ WF_vars(TimedOut(o))
         /\ WF_vars(ReplyReceived(o)) /\ WF_vars(RecvFailed(o))
         /\ WF_vars(RemoteApplied(o)) /\ WF_vars(AnswerCreated(o))
         /\ WF_vars(AnswerSent(o)) /\ WF_vars(KeepAlivePoll(o))
         /\ WF_vars(ExitChannel(o))
    /\ WF_vars(MonitorPoll)
    /\ WF_vars(CloseTask)

FairOrchSpec == OrchSpec /\ OrchFairness

\* One sender, one receiver and the broker, started in any order.
InitSession == BrokerInit /\ OrchInit(Roles)

SessionSpec == InitSession /\ [][SessionNext]_vars

\* The event loops of the three processes run every task that is ready,
\* timers fire, and the network delivers what was sent.
SessionFairness ==
    /\ \A o \in Roles :
         /\ WF_vars(SetupEngine(o) /\ Accepts(o))
         /\ WF_vars(OfferCreated(o) /\ Accepts(o))
         /\ WF_vars(OpenChannel(o) /\ Accepts(o))
         /\ WF_vars(RoleSent(o)) /\ WF_vars(OfferSent(o))
         /\ WF_vars(SessionTick(o)) /\ WF_vars(TimedOut(o))
         /\ WF_vars(ReplyReceived(o)) /\ WF_vars(RecvFailed(o))
         /\ WF_vars(RemoteApplied(o) /\ Accepts(o))
         /\ WF_vars(AnswerCreated(o) /\ Accepts(o))
         /\ WF_vars(AnswerSent(o)) /\ WF_vars(KeepAlivePoll(o))
         /\ WF_vars(ExitChannel(o))
         /\ WF_vars(WireConnect(o)) /\ WF_vars(WireUp(o))
         /\ WF_vars(WireDown(o)) /\ WF_vars(WireClose(o))
         /\ WF_vars(WireServerClosed(o))
    /\ \A c \in Channels :
         /\ WF_vars(RecvRole(c)) /\ WF_vars(DrainSend(c))
         /\ WF_vars(RelayRecv(c)) /\ WF_vars(FwdSend(c))
         /\ WF_vars(RecvClosed(c))
    /\ WF_vars(MonitorPoll)
    /\ WF_vars(CloseTask)

FairSessionSpec == SessionSpec /\ SessionFairness

\* ------------------------------------------------------ claims on the broker
InLoop(c) == role[c] \in Roles /\ hpc[c] \in {"drain_send", "relay", "fwd_send"}

\* C1: every message the broker queued for role R while R's slot was unbound
\* is either still pending or has been delivered to the channel that bound R
\* next after it was queued; queued messages reach a channel in the order
\* they were queued; and a channel gets messages only once it has been bound.
C1_QueuedGoToNextBinder ==
    /\ \A r \in Roles : \A m \in Range(arrived[r]) :
         queuedAt[m] >= 0 =>
           \/ m \in Range(message_queue[r])
           \/ /\ Len(bindLog[r]) > queuedAt[m]
              /\ m \in Range(delivered[bindLog[r][queuedAt[m] + 1]])
    /\ \A c \in Channels : \A i, j \in 1..Len(delivered[c]) :
         (i < j /\ role[c] \in Roles
            /\ queuedAt[delivered[c][i]] >= 0 /\ queuedAt[delivered[c][j]] >= 0)
         => IndexOf(arrived[role[c]], delivered[c][i])
              < IndexOf(arrived[role[c]], delivered[c][j])
    /\ \A c \in Channels :
         delivered[c] # <<>> /\ role[c] \in Roles => c \in Range(bindLog[role[c]])

\* C2: the messages for a role are written on its channel in the order in
\* which the broker received them, queued or forwarded.
C2_ArrivalOrder ==
    \A c \in Channels : \A i, j \in 1..Len(delivered[c]) :
        (i < j /\ role[c] \in Roles)
        => IndexOf(arrived[role[c]], delivered[c][i])
             < IndexOf(arrived[role[c]], delivered[c][j])

\* C3: never do two open channels act as the same role: binding a role
\* closes the channel bound before.
C3_OneOpenChannelPerRole ==
    \A c, d \in Channels :
        (c # d /\ InLoop(c) /\ InLoop(d) /\ role[c] = role[d])
        => (chan[c] # "open" \/ chan[d] # "open")

\* C4: a channel whose first message is no role is never stored in a slot,
\* its handler only sends the error reply and ends, a channel the handler
\* itself closed has received exactly the error reply, and the handler's
\* steps leave both slots and both queues as they are.
C4_InvalidRoleRejected ==
    /\ [](\A c \in Channels :
            (role[c] # "none" /\ role[c] \notin Roles) =>
              /\ \A n \in DOMAIN clients : clients[n] # c
              /\ hpc[c] \in {"send_invalid", "done"}
              /\ chan[c] = "server_closed" => delivered[c] = <<InvalidRole>>)
    /\ [][\A c \in Channels :
            (decl[c] \notin Roles /\ hpc[c] # hpc'[c]) =>
               /\ \A r \in Roles : clients'[r] = clients[r]
               /\ message_queue' = message_queue]_vars

\* C10: the closure of one role's channel ends only that channel's handler
\* and unbinds only that role: a relay loop ends only when its own channel
\* was closed by its peer, and a slot that was bound is empty only when a
\* channel of that role was closed by its peer.
C10_ClosureAffectsOnlyItsRole ==
    /\ \A c \in Channels :
         (role[c] \in Roles /\ hpc[c] = "done") => chan[c] = "peer_closed"
    /\ \A r \in Roles :
         (clients[r] = None /\ bindLog[r] # <<>>)
         => \E c \in Channels : role[c] = r /\ chan[c] = "peer_closed"

\* C11: the broker's slot table and queue table have exactly the two keys
\* "sender" and "receiver", and no channel that declared another name is
\* stored in the slot table.
C11_ExactlyTwoSlots ==
    /\ DOMAIN clients = Roles
    /\ DOMAIN message_queue = Roles
    /\ \A c \in Channels :
         (decl[c] # "none" /\ decl[c] \notin Roles)
         => \A n \in DOMAIN clients : clients[n] # c

\* C12: a role whose pending queue is not empty has an unbound slot.
C12_QueuedOnlyWhileUnbound ==
    \A r \in Roles : message_queue[r] # <<>> => clients[r] = None

\* C18: whenever a handler is inside a send of a drained or a forwarded
\* message, the channel it sent on was open at the call.
C18_NoSendOnClosedChannel ==
    \A c \in Channels : hpc[c] \in {"drain_send", "fwd_send"} => sendOk[c]

\* C19: an open channel that is the latest one bound to its role, and whose
\* handler is still running, is the binding of that role's slot.
C19_LatestOpenChannelStaysBound ==
    \A c \in Channels :
        (InLoop(c) /\ chan[c] = "open"
           /\ bindLog[role[c]][Len(bindLog[role[c]])] = c)
        => clients[role[c]] = c

\* The places where payload m destined to role r is found: a position of
\* r's pending queue (channel 0) or of what a channel of role r was sent.
Copies(r, m) ==
    {<<0, i>> : i \in {j \in 1..Len(message_queue[r]) : message_queue[r][j] = m}}
    \cup UNION {{<<c, i>> : i \in {j \in 1..Len(delivered[c]) :
                                      delivered[c][j] = m}}
                : c \in {d \in Channels : role[d] = r}}

\* C20: every message the broker has read for role R is at exactly one
\* place: in R's pending queue, or delivered once to a channel bound to R.
C20_NoLossNoDuplication ==
    \A r \in Roles : \A m \in Range(arrived[r]) :
        Cardinality(Copies(r, m)) = 1

\* ----------------------------------------------- claims on the orchestrators
\* The state of the spec's state machine the run is in.
OrchState(o) ==
    IF opc[o] = "done" THEN "CLOSED"
    ELSE IF ~wasActive[o] THEN "NEGOTIATING"
    ELSE IF opc[o] = "keepalive" /\ ~isClosed[o] THEN "ACTIVE"
    ELSE "CLOSING"

\* C5: a run whose wait for the reply timed out did so after 30 time units,
\* has applied no remote descriptor, has never been ACTIVE, has sent nothing
\* more (no retry), and only leaves the channel and ends, closed.
C5_TimeoutFails ==
    \A o \in Roles :
        outcome[o] = "timeout" =>
          /\ timer[o] = Timeout
          /\ ~remoteApplied[o]
          /\ ~wasActive[o]
          /\ opc[o] \in {"exit_ws", "done"}
          /\ OrchState(o) \in {"NEGOTIATING", "CLOSED"}
          /\ tx[o] = IF o = "sender" THEN <<"sender", "offer">> ELSE <<"receiver">>
          /\ opc[o] = "done" => (isClosed[o] /\ ws[o] = "closed")

C5_Witness ==
    \E o \in Roles : outcome[o] = "timeout" /\ opc[o] = "done" /\ isClosed[o]

\* C6: once the video track has ended, either the monitor is still in the
\* poll interval in which the track ended, or the sender's engine connection
\* is closed, whatever the connection state reports; and the poll interval
\* ends, so the connection does get closed.
C6_TrackEndClosesEngine ==
    /\ [](~trackLive =>
            /\ monitor # "none"
            /\ monitor # "polling" => isClosed["sender"])
    /\ (~trackLive) ~> isClosed["sender"]

C6_Witness ==
    /\ ~trackLive
    /\ monitor = "done"
    /\ isClosed["sender"]
    /\ opc["sender"] = "keepalive"

C8_ReleasedOnEveryExit ==
    \A o \in Roles :
        opc[o] = "done" => (isClosed[o] /\ ws[o] \in {"none", "closed"})

\* C9: after the video track has ended the sender's run ends, and after
\* display_video has met the end of the stream, or the connection state
\* has become "closed", the receiver's run ends.
C9_FiniteVideoTerminates ==
    /\ (~trackLive) ~> (opc["sender"] = "done")
    /\ (display = "done" \/ (opc["receiver"] = "keepalive"
                             /\ iceState["receiver"] = "closed"))
         ~> (opc["receiver"] = "done")

C9_Witness ==
    /\ ~trackLive
    /\ opc["sender"] = "done"
    /\ outcome["sender"] = "closed"

\* C14: a run in its keep-alive loop whose connection state reports "closed"
\* leaves the loop at its next poll, for the teardown and nothing else, and
\* the run ends with the engine released and the channel closed.
C14_KeepAliveEndsOnClosed ==
    /\ [][\A o \in Roles :
            (opc[o] = "keepalive" /\ iceState[o] = "closed" /\ opc'[o] # opc[o])
            => opc'[o] = "exit_ws"]_vars
    /\ \A o \in Roles :
         (opc[o] = "keepalive" /\ iceState[o] = "closed")
           ~> (opc[o] = "done" /\ isClosed[o] /\ ws[o] = "closed")

C14_Witness ==
    /\ opc["receiver"] = "done"
    /\ outcome["receiver"] = "closed"
    /\ wasActive["receiver"]
    /\ ws["receiver"] = "closed"

\* C15: a step in which the engine fails (creating or setting the local
\* offer or answer, applying the remote descriptor) never ends the run with
\* the engine connection open, and a run that failed and has ended has its
\* engine connection closed and was never ACTIVE.
C15_EngineFailureTearsDown ==
    /\ [][\A o \in Roles :
            (opc[o] \in {"offer", "apply", "answer"}
               /\ outcome[o] = "none" /\ outcome'[o] = "error")
            => (opc'[o] = "done" => isClosed'[o])]_vars
    /\ [](\A o \in Roles :
            (outcome[o] = "error" /\ opc[o] = "done" /\ ws[o] # "none")
            => (isClosed[o] /\ ~wasActive[o]))

\* What an orchestrator sends on its channel during the handshake.
Handshake(o) == IF o = "sender" THEN <<"sender", "offer">>
                ELSE <<"receiver", "answer">>

\* The moves of the spec's state machine.
Forward ==
    {<<"NEGOTIATING", "ACTIVE">>, <<"NEGOTIATING", "CLOSED">>,
     <<"ACTIVE", "CLOSING">>, <<"CLOSING", "CLOSED">>}

\* Everything a run and its background tasks own.
OrchView(o) ==
    <<opc[o], outcome[o], timer[o], remoteApplied[o], wasActive[o],
      isClosed[o], iceState[o], engineCloses[o], closeCalls[o], ws[o],
      wsCloses[o], rx[o], tx[o],
      IF o = "sender" THEN <<monitor, trackLive>>
      ELSE <<display, closeTasks, keys>> >>

\* C16: a run changes state only along the moves of the state machine (so
\* each state is entered at most once), it becomes ACTIVE only with the
\* remote descriptor applied, its own descriptor sent and no failure, and
\* once CLOSED nothing of the run changes any more.
C16_StatesOnlyForward ==
    [][\A o \in Roles :
         /\ OrchState(o)' # OrchState(o)
              => <<OrchState(o), OrchState(o)'>> \in Forward
         /\ (OrchState(o)' = "ACTIVE" /\ OrchState(o) # "ACTIVE")
              => /\ remoteApplied'[o]
                 /\ tx'[o] = Handshake(o)
                 /\ outcome'[o] = "none"
                 /\ ~isClosed'[o]
         /\ OrchState(o) = "CLOSED" => OrchView(o)' = OrchView(o)]_vars

C16_Witness ==
    \E o \in Roles :
        /\ opc[o] = "done"
        /\ wasActive[o]
        /\ outcome[o] = "cancelled"

\* Whether s is a prefix of t.
IsPrefix(s, t) == Len(s) <= Len(t) /\ \A i \in 1..Len(s) : s[i] = t[i]

\* C17: each orchestrator sends its role first; the sender has sent role
\* and offer before it waits for the reply; the receiver sends its answer
\* only with the received message applied as remote offer; and a run takes
\* a message from its channel only in its one timed wait, which it leaves
\* with that message and never enters again.
C17_HandshakeOrder ==
    /\ [](\A o \in Roles :
            /\ IsPrefix(tx[o], Handshake(o))
            /\ (o = "sender" /\ opc[o] = "wait_reply") => tx[o] = Handshake(o)
            /\ (o = "receiver" /\ Len(tx[o]) = 2) => remoteApplied[o]
            /\ remoteApplied[o] => Len(tx[o]) >= (IF o = "sender" THEN 2 ELSE 1))
    /\ [][\A o \in Roles :
            /\ Len(rx'[o]) < Len(rx[o])
                 => (opc[o] = "wait_reply" /\ opc'[o] # "wait_reply"
                       /\ rx'[o] = Tail(rx[o]))
            /\ opc'[o] = "wait_reply"
                 => opc[o] \in {"wait_reply", "sent_role", "sent_offer"}
            /\ (opc[o] = "wait_reply" /\ opc'[o] = "apply")
                 => Len(rx'[o]) < Len(rx[o])]_vars

C17_Witness ==
    /\ opc["receiver"] = "keepalive"
    /\ tx["receiver"] = <<"receiver", "answer">>
    /\ remoteApplied["receiver"]
    /\ rx["receiver"] = <<>>

\* ------------------------------------------------------ claims on a session
\* Both orchestrators are connected within the timeout of the other.
BothConnectedInTime ==
    \A o \in Roles : ws[o] = "open" /\ outcome[o] = "none" /\ timer[o] < Timeout

C21_NoStaleDescriptor ==
    [][/\ (remoteApplied'["receiver"] /\ ~remoteApplied["receiver"])
            => ~(opc["sender"] = "done" /\ queuedAt[Encode("offer")] >= 0)
       /\ (remoteApplied'["sender"] /\ ~remoteApplied["sender"])
            => queuedAt[Encode("answer")] < 0]_vars
====
